---------------------------- MODULE Spec2Model ----------------------------
(***************************************************************************)
(* Model of cremi_tools/segmentation/watershed.py: the seeded-watershed    *)
(* oversegmentation pipeline of LRAffinityWatershed (seeding by connected  *)
(* components and by distance-transform maxima, seed merge, 2D/3D          *)
(* watershed, size filter, mask cleanup) and the DTWatershed and           *)
(* MutexWatershed classes.                                                 *)
(*                                                                         *)
(* A volume of shape <<nz, ny, nx>> is a sequence of nz*ny*nx values in    *)
(* C (row-major) order: voxel v (1-based) has z = (v-1) \div (ny*nx),      *)
(* y = ((v-1) \div nx) % ny, x = (v-1) % nx.  This is the order in which   *)
(* numpy and vigra scan an array.                                          *)
(*                                                                         *)
(* Affinities are fixed-point numbers: One stands for 1.0.  One is a       *)
(* multiple of 2 and 3 so that the mean over 2 or 3 channels is exact.     *)
(***************************************************************************)
EXTENDS Integers, Sequences, FiniteSets, TLC

\* ------------------------------------------------------------------ bounds
\* Largest number of voxels of an input volume.
MaxVoxels == 4
\* The size_filter threshold of the configurations that filter.
MaxSizeFilter == 2
\* Largest number of voxels of a volume given to
\* seeds_from_distance_transform_2d alone.
MaxDTVoxels == 6

One == 2 * 3
\* threshold_cc and threshold_dt of the configuration: 0.5.
threshold_cc == One \div 2
threshold_dt == One \div 2
\* Number of affinity channels of the input (z, y, x direction): the
\* channels of slice(0, 3).
NChannels == 3

\* ---------------------------------------------------------------- geometry
\* A function written out as a table, so that it is computed once.
Table(f) == f @@ <<>>

ShapesUpTo(n) == {s \in (1..n) \X (1..n) \X (1..n) : s[1] * s[2] * s[3] <= n}
Shapes == ShapesUpTo(MaxVoxels)

NVox(sh) == sh[1] * sh[2] * sh[3]
Vox(sh) == 1..NVox(sh)
ZOf(sh, v) == (v - 1) \div (sh[2] * sh[3])
YOf(sh, v) == ((v - 1) \div sh[3]) % sh[2]
XOf(sh, v) == (v - 1) % sh[3]
Abs(i) == IF i < 0 THEN -i ELSE i
Slice(sh, z) == {v \in Vox(sh) : ZOf(sh, v) = z}

\* 6-neighbourhood of a 3D array (vigra's default for volumes).
Adj6(sh) ==
  Table([v \in Vox(sh) |->
     {u \in Vox(sh) : Abs(ZOf(sh, u) - ZOf(sh, v)) + Abs(YOf(sh, u) - YOf(sh, v))
                        + Abs(XOf(sh, u) - XOf(sh, v)) = 1}])
\* 4-neighbourhood inside a z-slice (vigra's default for labelImage and
\* for 2D watersheds).
Adj4(sh) ==
  Table([v \in Vox(sh) |->
     {u \in Vox(sh) : /\ ZOf(sh, u) = ZOf(sh, v)
                      /\ Abs(YOf(sh, u) - YOf(sh, v)) + Abs(XOf(sh, u) - XOf(sh, v)) = 1}])
\* 8-neighbourhood inside a z-slice (vigra's default for localMaxima).
Adj8(sh) ==
  Table([v \in Vox(sh) |->
     {u \in Vox(sh) : /\ ZOf(sh, u) = ZOf(sh, v)
                      /\ u # v
                      /\ Abs(YOf(sh, u) - YOf(sh, v)) <= 1
                      /\ Abs(XOf(sh, u) - XOf(sh, v)) <= 1}])

SetMin(S) == CHOOSE m \in S : \A k \in S : m <= k
SetMax(S) == CHOOSE m \in S : \A k \in S : m >= k
\* numpy's arr.max() of a non-empty array.
ArrMax(arr) == SetMax({arr[v] : v \in DOMAIN arr})
Labels(arr) == {arr[v] : v \in DOMAIN arr}
Count(arr, l) == Cardinality({v \in DOMAIN arr : arr[v] = l})

\* ------------------------------------------------- library primitives
\* The voxels of fg reachable from S by steps of adj inside fg.
RECURSIVE Reach(_, _, _)
Reach(S, fg, adj) ==
  LET T == S \cup {u \in fg : \E w \in S : u \in adj[w]}
  IN IF T = S THEN S ELSE Reach(T, fg, adj)

\* vigra labelVolumeWithBackground / labelImageWithBackground: the connected
\* components of the foreground fg are numbered 1, 2, ... in the order of
\* their first voxel in scan order; everything else is 0.
LabelWithBackground(dom, fg, adj) ==
  LET rep == Table([v \in fg |-> SetMin(Reach({v}, fg, adj))])
  IN Table([v \in dom |->
        IF v \in fg THEN Cardinality({rep[u] : u \in {w \in fg : rep[w] <= rep[v]}})
        ELSE 0])

\* Squared distance between two voxels.
Dist2(sh, u, v) ==
  (ZOf(sh, u) - ZOf(sh, v)) * (ZOf(sh, u) - ZOf(sh, v))
  + (YOf(sh, u) - YOf(sh, v)) * (YOf(sh, u) - YOf(sh, v))
  + (XOf(sh, u) - XOf(sh, v)) * (XOf(sh, u) - XOf(sh, v))

\* scipy distance_transform_edt of the boolean array `th` restricted to the
\* voxels `dom` (one z-slice, or the volume): the distance of each true voxel
\* to the nearest false voxel of dom, 0 on false voxels.  The model keeps the
\* squared distance: the square root and the cast to float32 are strictly
\* increasing on these integers and only the order of the values is used.
\* When dom holds no false voxel scipy's feature transform is left at index
\* -1 on every axis, and the distance is that to the point (-1, ..., -1).
DistanceTransform(sh, dom, th, is3d) ==
  LET bg == {u \in dom : ~th[u]}
  IN Table([v \in dom |->
        IF bg # {} THEN SetMin({Dist2(sh, u, v) : u \in bg})
        ELSE (IF is3d THEN (ZOf(sh, v) + 1) * (ZOf(sh, v) + 1) ELSE 0)
             + (YOf(sh, v) + 1) * (YOf(sh, v) + 1)
             + (XOf(sh, v) + 1) * (XOf(sh, v) + 1)])

\* vigra localMaxima / localMaxima3D with allowPlateaus=True and
\* allowAtBorder=True: the voxels of the plateaus (connected sets of equal
\* value under adj) none of whose voxels has a larger neighbour.
LocalMaxima(dom, dt, adj) ==
  {v \in dom :
     \A w \in Reach({v}, {u \in dom : dt[u] = dt[v]}, adj) :
        \A u \in adj[w] \cap dom : dt[u] <= dt[w]}


\* The elements of a set of numbers as an ascending sequence.
RECURSIVE SortedSeq(_)
SortedSeq(S) ==
  IF S = {} THEN <<>> ELSE <<SetMin(S)>> \o SortedSeq(S \ {SetMin(S)})

\* The priority queue of vigra's seeded region growing is a sequence of
\* <<voxel, priority>>; the entry popped is the one of least priority, the
\* earliest pushed among equals.
PopIdx(q) ==
  CHOOSE i \in 1..Len(q) :
     /\ \A j \in 1..Len(q) : q[i][2] <= q[j][2]
     /\ \A j \in 1..(i - 1) : q[j][2] > q[i][2]
RemoveAt(q, i) == SubSeq(q, 1, i - 1) \o SubSeq(q, i + 1, Len(q))
Max2(a, b) == IF a >= b THEN a ELSE b

\* vigra seededWatersheds (region growing, complete grow): the popped voxel
\* gives its label to each of its unlabelled neighbours, which are pushed with
\* priority max(hmap[neighbour], cost of the popped voxel).
RECURSIVE Grow(_, _, _, _)
Grow(lab, q, hmap, adj) ==
  IF q = <<>> THEN lab
  ELSE LET i == PopIdx(q)
           node == q[i][1]
           cost == q[i][2]
           free == SortedSeq({u \in adj[node] \cap DOMAIN lab : lab[u] = 0})
           grown == Table([v \in DOMAIN lab |->
                       IF \E k \in 1..Len(free) : free[k] = v THEN lab[node] ELSE lab[v]])
           pushed == [k \in 1..Len(free) |-> <<free[k], Max2(hmap[free[k]], cost)>>]
       IN Grow(grown, RemoveAt(q, i) \o pushed, hmap, adj)

\* The seeds vigra computes itself when the seed array holds no nonzero
\* label: the strict local minima of hmap, numbered in scan order.
GeneratedSeeds(dom, hmap, adj) ==
  LabelWithBackground(dom, {v \in dom : \A u \in adj[v] \cap dom : hmap[v] < hmap[u]}, adj)

\* vigra.analysis.watershedsNew(hmap, seeds=seeds) on the voxels dom (a
\* z-slice for a 2D call, the volume for a 3D call): the labels.  The seed
\* labels are kept; the returned max label is the largest label.
WatershedsLabels(dom, hmap, seeds, adj) ==
  LET given == Table([v \in dom |-> seeds[v]])
      start == IF \E v \in dom : given[v] # 0 THEN given
               ELSE GeneratedSeeds(dom, hmap, adj)
      border == SortedSeq({v \in dom : start[v] # 0
                                       /\ \E u \in adj[v] \cap dom : start[u] = 0})
      q0 == [k \in 1..Len(border) |-> <<border[k], hmap[border[k]]>>]
  IN Grow(start, q0, hmap, adj)

\* ------------------------------------------------ functions of the module
\* Faulty variant, for sensitivity of the properties: the exclusion mask is not applied to the thresholded field.
seeds_from_connected_components_NoExclusion(sh, field, threshold, excl) ==
  LET thresholded == {v \in Vox(sh) : field[v] <= threshold}
      labelled == LabelWithBackground(Vox(sh), thresholded, Adj6(sh))
  IN <<labelled, ArrMax(labelled) + 1>>

\* seeds_from_connected_components(input_, threshold, exclusion_mask):
\* <<seeds, max_label + 1>>.  excl is the set of excluded voxels ({} for
\* exclusion_mask=None).
seeds_from_connected_components(sh, field, threshold, excl) ==
  LET thresholded == {v \in Vox(sh) : field[v] <= threshold} \ excl
      labelled == LabelWithBackground(Vox(sh), thresholded, Adj6(sh))
  IN <<labelled, ArrMax(labelled) + 1>>

\* The labelled local maxima of the distance transform of one z-slice
\* (lines 25 to 29, sigma = 0).
SliceMaximaLabels(sh, field, threshold, z) ==
  LET dom == Slice(sh, z)
      th == Table([v \in Vox(sh) |-> field[v] < threshold])
      dt == DistanceTransform(sh, dom, th, FALSE)
  IN LabelWithBackground(dom, LocalMaxima(dom, dt, Adj8(sh)), Adj4(sh))

\* Faulty variant, for sensitivity of the properties: the offset is taken from the number of seeds of the slice alone.
NextOffset_SliceCount(seeds_z) == Cardinality(Labels(seeds_z) \ {0}) + 1

\* The running offset after a slice whose (offset) labels are seeds_z.
NextOffset(seeds_z) == ArrMax(seeds_z) + 1

\* One pass of the loop over z of seeds_from_distance_transform_2d:
\* <<seeds, offset_z>> after slice z.
DT2dSlice(sh, field, threshold, z, seeds, offset_z) ==
  LET local == SliceMaximaLabels(sh, field, threshold, z)
      seeds_z == Table([v \in Slice(sh, z) |->
                          IF local[v] # 0 THEN local[v] + offset_z ELSE 0])
      filled == Table([v \in Vox(sh) |->
                         IF v \in Slice(sh, z) THEN seeds_z[v] ELSE seeds[v]])
  IN <<filled, NextOffset(seeds_z)>>

\* The loop from slice z on.
RECURSIVE DT2dLoop(_, _, _, _, _, _)
DT2dLoop(sh, field, threshold, z, seeds, offset_z) ==
  IF z = sh[1] THEN <<seeds, offset_z>>
  ELSE LET r == DT2dSlice(sh, field, threshold, z, seeds, offset_z)
       IN DT2dLoop(sh, field, threshold, z + 1, r[1], r[2])

seeds_from_distance_transform_2d(sh, field, threshold) ==
  DT2dLoop(sh, field, threshold, 0, [v \in Vox(sh) |-> 0], 0)

\* seeds_from_distance_transform: one 3D pass (sigma = 0).
seeds_from_distance_transform(sh, field, threshold) ==
  LET th == Table([v \in Vox(sh) |-> field[v] < threshold])
      dt == DistanceTransform(sh, Vox(sh), th, TRUE)
      labelled == LabelWithBackground(Vox(sh), LocalMaxima(Vox(sh), dt, Adj6(sh)), Adj6(sh))
  IN <<labelled, ArrMax(labelled) + 1>>

\* run_watershed_2d: one 2D watershed per z-slice; <<ws, int(ws.max())>>.
run_watershed_2d(sh, hmap, seeds) ==
  LET adj == Adj4(sh)
      ws_z == Table([z \in 0..(sh[1] - 1) |->
                       WatershedsLabels(Slice(sh, z), hmap, seeds, adj)])
      ws == Table([v \in Vox(sh) |-> ws_z[ZOf(sh, v)][v]])
  IN <<ws, ArrMax(ws)>>

\* run_watershed: one 3D watershed.
run_watershed(sh, hmap, seeds) ==
  LET ws == WatershedsLabels(Vox(sh), hmap, seeds, Adj6(sh))
  IN <<ws, ArrMax(ws)>>

\* Faulty variant, for sensitivity of the properties: the comparison is reversed, the labels above the threshold go.
SmallIds_Flipped(ws, threshold) == {l \in Labels(ws) : Count(ws, l) > threshold}

\* The labels size_filter erases: those with fewer voxels than the threshold.
SmallIds(ws, threshold) == {l \in Labels(ws) : Count(ws, l) < threshold}

\* Faulty variant, for sensitivity of the properties: nothing is erased.
Erased_Nothing(ws, threshold) == ws

\* The seed array of the re-flood: ws with the small labels set to 0.
Erased(ws, threshold) ==
  LET small == SmallIds(ws, threshold)
  IN Table([v \in DOMAIN ws |-> IF ws[v] \in small THEN 0 ELSE ws[v]])

\* size_filter(hmap, ws, size_filter): erase, then one watershed over the
\* whole array.
size_filter(sh, hmap, ws, threshold) ==
  run_watershed(sh, hmap, Erased(ws, threshold))

\* vigra relabelConsecutive(ws, keep_zeros=True) with start_label 1: 0 stays
\* 0, the other labels become 1, 2, ... in the order of their first voxel;
\* <<relabelled, max_label>>.
relabelConsecutive(ws) ==
  LET first == [l \in Labels(ws) \ {0} |-> SetMin({v \in DOMAIN ws : ws[v] = l})]
      out == Table([v \in DOMAIN ws |->
                IF ws[v] = 0 THEN 0
                ELSE Cardinality({l \in DOMAIN first : first[l] <= first[ws[v]]})])
  IN <<out, Cardinality(DOMAIN first)>>

\* np.mean(inp[chans], axis=0) of the channels chans of the input inp.
ChannelMean(sh, inp, chans) ==
  LET chs == SortedSeq(chans)
      RECURSIVE Sum(_, _)
      Sum(v, k) == IF k = 0 THEN 0 ELSE inp[chs[k]][v] + Sum(v, k - 1)
  IN Table([v \in Vox(sh) |-> Sum(v, Len(chs)) \div Len(chs)])

\* mask=None is the empty sequence, seed_channel=None the empty set: neither
\* is a mask of a volume or a list of channels.
NoMask == <<>>
NoChannels == {}

\* `full`: the mean over all channels, or over self.seed_channel.
FullOf(sh, inp, sc) ==
  ChannelMean(sh, inp, IF sc = NoChannels THEN 1..NChannels ELSE sc)

\* `nearest`: nn_slice is slice(1, 3) if anisotropic, else slice(0, 3).
NearestOf(sh, inp, aniso) ==
  ChannelMean(sh, inp, IF aniso THEN 2..3 ELSE 1..3)

\* Faulty variant, for sensitivity of the properties: the distance-transform seeds overwrite the connected-component
\* seeds wherever they are nonzero.
MergedSeeds_NoPriority(a, b, off) ==
  Table([v \in DOMAIN a |-> IF b[v] # 0 THEN b[v] + off ELSE a[v]])

\* The merged seed map: seeds_dt[seeds_dt != 0] += seed_offset, then
\* seeds[seeds == 0] = seeds_dt[seeds == 0].
MergedSeeds(a, b, off) ==
  LET shifted == Table([v \in DOMAIN b |-> IF b[v] # 0 THEN b[v] + off ELSE b[v]])
  IN Table([v \in DOMAIN a |-> IF a[v] = 0 THEN shifted[v] ELSE a[v]])

\* `if size_filter:` tests the module-level function size_filter, not
\* self.size_filter; a function object is true.
SizeFilterTest == TRUE

\* LRAffinityWatershed._oversegmentation_impl as a whole: <<ws, max_id>>.
oversegmentation_impl(sh, inp, aniso, sf, sc) ==
  LET f == FullOf(sh, inp, sc)
      nr == NearestOf(sh, inp, aniso)
      cc == seeds_from_connected_components(sh, f, threshold_cc, {})
      dt == IF aniso THEN seeds_from_distance_transform_2d(sh, nr, threshold_dt)[1]
            ELSE seeds_from_distance_transform(sh, nr, threshold_dt)[1]
      merged == MergedSeeds(cc[1], dt, cc[2])
      flooded == IF aniso THEN run_watershed_2d(sh, nr, merged)
                 ELSE run_watershed(sh, nr, merged)
  IN IF SizeFilterTest THEN size_filter(sh, nr, flooded[1], sf) ELSE flooded

\* Faulty variant, for sensitivity of the properties: the mask itself is used in place of its complement.
ZeroExcluded_Inverted(w, excl) ==
  Table([v \in DOMAIN w |-> IF v \notin excl THEN 0 ELSE w[v]])

\* Faulty variant, for sensitivity of the properties: the excluded voxels are not zeroed.
ZeroExcluded_Skipped(w, excl) == w

\* ws[exclusion_mask] = 0
ZeroExcluded(w, excl) == Table([v \in DOMAIN w |-> IF v \in excl THEN 0 ELSE w[v]])

\* ------------------------------------------------------------------ state
VARIABLES
  cls,             \* the Oversegmenter subclass used
  ndim,            \* input_.ndim
  shape,           \* spatial shape <<nz, ny, nx>> of the input
  input_,          \* the channels of the input, each a volume
  mask,            \* None, or the inclusion mask (a boolean volume)
  is_anisotropic,  \* self.is_anisotropic
  self_size_filter,\* self.size_filter
  seed_channel,    \* self.seed_channel: None or a set of channel indices
  pc,              \* position in the method
  full, nearest,   \* the two channel means
  seeds_cc,        \* the connected-component seed map as returned (A)
  seed_offset,
  z_cur, offset_z, \* z and offset_z of seeds_from_distance_transform_2d
  seeds_dt,        \* the distance-transform seed map (B)
  seeds,           \* the seed map, merged in place
  ws_flooded,      \* <<ws, max_id>> as left by the watershed step
  ws_filtered,     \* ws as left by the size filter step
  ws, max_id,      \* the current label volume and max label
  reflooded,       \* whether size_filter has run
  outcome          \* how the call ended

vars == <<cls, ndim, shape, input_, mask, is_anisotropic, self_size_filter,
          seed_channel, pc, full, nearest, seeds_cc, seed_offset, z_cur, offset_z,
          seeds_dt, seeds, ws_flooded, ws_filtered, ws, max_id, reflooded, outcome>>

config == <<cls, ndim, shape, input_, mask, is_anisotropic, self_size_filter,
            seed_channel>>

Classes == {"LRAffinityWatershed", "DTWatershed", "MutexWatershed"}

\* The dimensionality each class asserts of its input.
DeclaredNdim(c) == IF c = "DTWatershed" THEN 3 ELSE 4

Volumes(sh, vals) == [Vox(sh) -> vals]
Zeros(sh) == [v \in Vox(sh) |-> 0]
Excluded == IF mask = NoMask THEN {} ELSE {v \in Vox(shape) : ~mask[v]}

Fresh ==
  /\ pc = "new"
  /\ full = <<>> /\ nearest = <<>>
  /\ seeds_cc = <<>> /\ seed_offset = 0 /\ seeds = <<>>
  /\ z_cur = 0 /\ offset_z = 0 /\ seeds_dt = <<>>
  /\ ws_flooded = <<>> /\ ws_filtered = <<>> /\ ws = <<>> /\ max_id = 0
  /\ reflooded = FALSE
  /\ outcome = "running"

\* The calls explored.  LRAffinityWatershed on a 4D input: a volume of at
\* most MaxVoxels voxels with affinities 0.0 or 1.0; either no mask,
\* seed_channel = [0] and equal y and x channels, or any mask, no
\* seed_channel and three equal channels; size_filter 0 or MaxSizeFilter.
\* Every other call (another class, or a 3D input) on a one-voxel volume.
Init ==
  /\ cls \in Classes
  /\ ndim \in {3, 4}
  /\ shape \in Shapes
  /\ is_anisotropic \in BOOLEAN
  /\ self_size_filter \in {0, MaxSizeFilter}
  /\ IF cls = "LRAffinityWatershed" /\ ndim = 4
       THEN \/ /\ mask = NoMask
               /\ seed_channel = {1}
               /\ \E c0 \in Volumes(shape, {0, One}), c12 \in Volumes(shape, {0, One}) :
                     input_ = <<c0, c12, c12>>
            \/ /\ mask \in Volumes(shape, BOOLEAN)
               /\ seed_channel = NoChannels
               /\ \E c \in Volumes(shape, {0, One}) : input_ = <<c, c, c>>
       ELSE /\ shape = <<1, 1, 1>>
            /\ input_ = <<<<0>>, <<0>>, <<0>>>>
            /\ mask \in {NoMask, <<TRUE>>}
            /\ is_anisotropic
            /\ self_size_filter = 0
            /\ seed_channel = NoChannels
  /\ Fresh

\* ---------------------------------------------------------------- actions
\* DTWatershed.__init__ calls super(LRAffinityWatershed, self).__init__ on an
\* object that is no LRAffinityWatershed: super() raises TypeError.
ConstructDT ==
  /\ pc = "new" /\ cls = "DTWatershed"
  /\ pc' = "raised"
  /\ outcome' = "TypeError"
  /\ UNCHANGED <<config, full, nearest, seeds_cc, seed_offset, z_cur, offset_z,
                 seeds_dt, seeds, ws_flooded, ws_filtered, ws, max_id, reflooded>>

\* MutexWatershed._oversegmentation_impl[_masked]: the assert, then the
\* method ends without a return statement.
CallMutex ==
  /\ pc = "new" /\ cls = "MutexWatershed"
  /\ IF ndim = DeclaredNdim(cls)
       THEN pc' = "done" /\ outcome' = "returned None"
       ELSE pc' = "raised" /\ outcome' = "AssertionError"
  /\ UNCHANGED <<config, full, nearest, seeds_cc, seed_offset, z_cur, offset_z,
                 seeds_dt, seeds, ws_flooded, ws_filtered, ws, max_id, reflooded>>

\* The assert and the two channel means.
Reduce ==
  /\ pc = "new" /\ cls = "LRAffinityWatershed"
  /\ IF ndim # DeclaredNdim(cls)
       THEN /\ pc' = "raised" /\ outcome' = "AssertionError"
            /\ UNCHANGED <<full, nearest>>
       ELSE /\ pc' = "reduced"
            /\ full' = FullOf(shape, input_, seed_channel)
            /\ nearest' = NearestOf(shape, input_, is_anisotropic)
            /\ UNCHANGED outcome
  /\ UNCHANGED <<config, seeds_cc, seed_offset, z_cur, offset_z, seeds_dt, seeds,
                 ws_flooded, ws_filtered, ws, max_id, reflooded>>

\* The connected-component seeds; the masked method then sets the excluded
\* voxels of the growth map to 1.
SeedsCC ==
  /\ pc = "reduced"
  /\ LET r == seeds_from_connected_components(shape, full, threshold_cc, Excluded)
     IN /\ seeds_cc' = r[1]
        /\ seeds' = r[1]
        /\ seed_offset' = r[2]
  /\ nearest' = [v \in Vox(shape) |-> IF v \in Excluded THEN One ELSE nearest[v]]
  /\ pc' = "cc"
  /\ UNCHANGED <<config, full, z_cur, offset_z, seeds_dt, ws_flooded, ws_filtered,
                 ws, max_id, reflooded, outcome>>

\* One pass of the loop of seeds_from_distance_transform_2d.
DTSlice ==
  /\ pc = "cc" /\ is_anisotropic /\ z_cur < shape[1]
  /\ LET r == DT2dSlice(shape, nearest, threshold_dt, z_cur,
                        IF z_cur = 0 THEN Zeros(shape) ELSE seeds_dt, offset_z)
     IN seeds_dt' = r[1] /\ offset_z' = r[2]
  /\ z_cur' = z_cur + 1
  /\ pc' = IF z_cur + 1 = shape[1] THEN "dt" ELSE "cc"
  /\ UNCHANGED <<config, full, nearest, seeds_cc, seed_offset, seeds,
                 ws_flooded, ws_filtered, ws, max_id, reflooded, outcome>>

SeedsDT3D ==
  /\ pc = "cc" /\ ~is_anisotropic
  /\ seeds_dt' = seeds_from_distance_transform(shape, nearest, threshold_dt)[1]
  /\ pc' = "dt"
  /\ UNCHANGED <<config, full, nearest, seeds_cc, seed_offset, z_cur, offset_z, seeds,
                 ws_flooded, ws_filtered, ws, max_id, reflooded, outcome>>

MergeSeeds ==
  /\ pc = "dt"
  /\ seeds' = MergedSeeds(seeds, seeds_dt, seed_offset)
  /\ pc' = "merged"
  /\ UNCHANGED <<config, full, nearest, seeds_cc, seed_offset, z_cur, offset_z,
                 seeds_dt, ws_flooded, ws_filtered, ws, max_id, reflooded, outcome>>

RunWatershed ==
  /\ pc = "merged"
  /\ LET r == IF is_anisotropic THEN run_watershed_2d(shape, nearest, seeds)
              ELSE run_watershed(shape, nearest, seeds)
     IN /\ ws' = r[1] /\ max_id' = r[2]
        /\ ws_flooded' = r
  /\ pc' = "flooded"
  /\ UNCHANGED <<config, full, nearest, seeds_cc, seed_offset, z_cur, offset_z,
                 seeds_dt, seeds, ws_filtered, reflooded, outcome>>

SizeFilter ==
  /\ pc = "flooded"
  /\ IF SizeFilterTest
       THEN LET r == size_filter(shape, nearest, ws, self_size_filter)
            IN ws' = r[1] /\ max_id' = r[2] /\ ws_filtered' = r[1] /\ reflooded' = TRUE
       ELSE ws_filtered' = ws /\ UNCHANGED <<ws, max_id, reflooded>>
  /\ pc' = "filtered"
  /\ UNCHANGED <<config, full, nearest, seeds_cc, seed_offset, z_cur, offset_z,
                 seeds_dt, seeds, ws_flooded, outcome>>

\* The end of the masked method: zero the excluded voxels, relabel, return.
MaskCleanup ==
  /\ pc = "filtered" /\ mask # NoMask
  /\ LET r == relabelConsecutive(ZeroExcluded(ws, Excluded))
     IN ws' = r[1] /\ max_id' = r[2]
  /\ pc' = "done"
  /\ outcome' = "returned"
  /\ UNCHANGED <<config, full, nearest, seeds_cc, seed_offset, z_cur, offset_z,
                 seeds_dt, seeds, ws_flooded, ws_filtered, reflooded>>

\* The end of the unmasked method.
Return ==
  /\ pc = "filtered" /\ mask = NoMask
  /\ pc' = "done"
  /\ outcome' = "returned"
  /\ UNCHANGED <<config, full, nearest, seeds_cc, seed_offset, z_cur, offset_z,
                 seeds_dt, seeds, ws_flooded, ws_filtered, ws, max_id, reflooded>>

Next ==
  \/ ConstructDT \/ CallMutex \/ Reduce \/ SeedsCC \/ DTSlice \/ SeedsDT3D
  \/ MergeSeeds \/ RunWatershed \/ SizeFilter \/ MaskCleanup \/ Return

Spec == Init /\ [][Next]_vars

\* seeds_from_distance_transform_2d on its own: any field with values 0.0 or
\* 1.0 on a volume of at most MaxDTVoxels voxels, at the start of the loop.
InitDT ==
  /\ cls = "LRAffinityWatershed" /\ ndim = 4
  /\ shape \in ShapesUpTo(MaxDTVoxels)
  /\ input_ = <<>> /\ mask = NoMask /\ seed_channel = NoChannels
  /\ is_anisotropic = TRUE /\ self_size_filter = 0
  /\ pc = "cc"
  /\ full = <<>> /\ nearest \in Volumes(shape, {0, One})
  /\ seeds_cc = <<>> /\ seed_offset = 0 /\ seeds = <<>>
  /\ z_cur = 0 /\ offset_z = 0 /\ seeds_dt = <<>>
  /\ ws_flooded = <<>> /\ ws_filtered = <<>> /\ ws = <<>> /\ max_id = 0
  /\ reflooded = FALSE
  /\ outcome = "running"

NextDT == DTSlice

SpecDT == InitDT /\ [][NextDT]_vars

\* ------------------------------------------------------------------ claims
IsLR == cls = "LRAffinityWatershed"
AfterMerge == IsLR /\ pc \in {"merged", "flooded", "filtered", "done"}

\* C1: seed merge.  With A the connected-component seed map, B the
\* distance-transform seed map and off the seed count returned for A, the
\* merged seed map is A where A is nonzero, else B + off where B is nonzero,
\* else 0; and no B-derived label stands where A is nonzero.
C1_SeedMerge ==
  AfterMerge =>
    /\ \A v \in Vox(shape) :
          seeds[v] = IF seeds_cc[v] # 0 THEN seeds_cc[v]
                     ELSE IF seeds_dt[v] # 0 THEN seeds_dt[v] + seed_offset
                     ELSE 0
    /\ \A v \in Vox(shape) :
          seeds_cc[v] # 0 =>
            seeds[v] \notin {seeds_dt[u] + seed_offset : u \in {w \in Vox(shape) : seeds_dt[w] # 0}}

\* The example of the claim: A has labels {0, 1, 2}, B has labels {0, 1},
\* off = 3, and the merged values where A is 0 are exactly {0, 4}; B is also
\* nonzero at a voxel that A seeds.
C1_Witness ==
  /\ IsLR /\ pc = "merged"
  /\ Labels(seeds_cc) = {0, 1, 2}
  /\ Labels(seeds_dt) = {0, 1}
  /\ seed_offset = 3
  /\ {seeds[v] : v \in {w \in Vox(shape) : seeds_cc[w] = 0}} = {0, 4}

\* C2: masked segment.  In the returned label volume every voxel outside the
\* mask is 0 and the nonzero labels present are exactly 1..max_label.
C2_MaskedResult ==
  (IsLR /\ pc = "done" /\ mask # NoMask) =>
    /\ \A v \in Excluded : ws[v] = 0
    /\ Labels(ws) \ {0} = 1..max_id

\* A masked call with excluded and kept voxels in which the cleanup left a
\* gap in the labels, closed by the relabelling.
C2_Witness ==
  /\ IsLR /\ pc = "done" /\ mask # NoMask
  /\ Excluded # {} /\ Excluded # Vox(shape)
  /\ max_id >= 1
  /\ ArrMax(ZeroExcluded(ws_filtered, Excluded)) > max_id
  /\ \E v \in Excluded : ws_filtered[v] # 0

\* C3: per-slice distance-transform seeding.  After each slice the running
\* offset is the largest label used so far plus 1, and no nonzero label
\* occurs in two different z-slices of the seed map.
C3_SliceLabelsDisjoint ==
  (IsLR /\ is_anisotropic /\ pc \in {"cc", "dt"} /\ z_cur > 0) =>
    /\ offset_z = ArrMax(seeds_dt) + 1
    /\ \A u, v \in Vox(shape) :
          (seeds_dt[u] # 0 /\ seeds_dt[u] = seeds_dt[v]) => ZOf(shape, u) = ZOf(shape, v)

\* The loop has ended on a volume of two slices, each with two seeds.
C3_Witness ==
  /\ pc = "dt" /\ is_anisotropic /\ shape[1] = 2
  /\ \A z \in 0..1 : Cardinality({seeds_dt[v] : v \in Slice(shape, z)} \ {0}) = 2

\* C4 as stated: with every voxel excluded, seeds_from_connected_components
\* returns an all-background volume and a seed count of 0.
C4_EmptyMaskCountZero ==
  (IsLR /\ pc = "cc" /\ mask # NoMask /\ Excluded = Vox(shape)) =>
    /\ \A v \in Vox(shape) : seeds_cc[v] = 0
    /\ seed_offset = 0

\* C4 amended: with every voxel excluded, seeds_from_connected_components
\* returns an all-background volume and the count max label + 1 = 1.
C4_EmptyMaskCountOne ==
  (IsLR /\ pc = "cc" /\ mask # NoMask /\ Excluded = Vox(shape)) =>
    /\ \A v \in Vox(shape) : seeds_cc[v] = 0
    /\ seed_offset = 1

\* Every voxel is excluded and some voxel is under the threshold.
C4_Witness ==
  /\ IsLR /\ pc = "cc" /\ mask # NoMask /\ Excluded = Vox(shape)
  /\ \E v \in Vox(shape) : full[v] <= threshold_cc

\* The label volume w holds exactly one label s with fewer than t voxels,
\* and every neighbour of an s voxel is an s voxel or a voxel of the one
\* larger label l.
SmallInsideLarge(w, t, s, l) ==
  /\ s # 0 /\ l # 0 /\ s # l
  /\ SmallIds(w, t) = {s}
  /\ Count(w, l) > Count(w, s)
  /\ \A v \in DOMAIN w : w[v] = s => \A u \in Adj6(shape)[v] : w[u] \in {s, l}
  /\ \E v \in DOMAIN w : w[v] = s /\ \E u \in Adj6(shape)[v] : w[u] = l

\* C5: size_filter on a volume with exactly one undersized region, enclosed
\* by one larger region: its voxels take the larger region's label, that
\* region grows by exactly their number, every other voxel keeps its label.
C5_SmallRegionAbsorbed ==
  (IsLR /\ pc = "filtered") =>
    \A s, l \in Labels(ws_flooded[1]) :
       SmallInsideLarge(ws_flooded[1], self_size_filter, s, l) =>
         /\ \A v \in Vox(shape) : ws_flooded[1][v] = s => ws_filtered[v] = l
         /\ Count(ws_filtered, l) = Count(ws_flooded[1], l) + Count(ws_flooded[1], s)
         /\ \A v \in Vox(shape) : ws_flooded[1][v] # s => ws_filtered[v] = ws_flooded[1][v]

\* size_filter has run on such a volume and changed it.
C5_Witness ==
  /\ IsLR /\ pc = "filtered"
  /\ \E s, l \in Labels(ws_flooded[1]) :
        SmallInsideLarge(ws_flooded[1], self_size_filter, s, l)
  /\ ws_filtered # ws_flooded[1]

\* Two label volumes equal up to a bijective renaming of the nonzero labels.
SameUpToRenaming(a, b) ==
  /\ DOMAIN a = DOMAIN b
  /\ \A u, v \in DOMAIN a : (a[u] = a[v]) <=> (b[u] = b[v])
  /\ \A v \in DOMAIN a : (a[v] = 0) <=> (b[v] = 0)

AllTrueMask == mask # NoMask /\ \A v \in Vox(shape) : mask[v]

\* C6: with a mask that is true everywhere the masked method returns the
\* label volume of the unmasked method up to a bijective renaming of the
\* nonzero labels.
C6_AllTrueMaskEquivalent ==
  (IsLR /\ pc = "done" /\ AllTrueMask) =>
    SameUpToRenaming(ws, oversegmentation_impl(shape, input_, is_anisotropic,
                                               self_size_filter, seed_channel)[1])

\* A masked call with an all-true mask whose result has several labels and
\* differs from the unmasked result: the renaming is not the identity.
C6_Witness ==
  /\ IsLR /\ pc = "done" /\ AllTrueMask
  /\ max_id >= 2
  /\ ws # oversegmentation_impl(shape, input_, is_anisotropic,
                                self_size_filter, seed_channel)[1]

\* C7 as stated: with size_filter = 0 no filter-and-reflood step is
\* performed and the result is exactly that of the watershed step.
C7_ZeroDisablesFilter ==
  (IsLR /\ pc = "filtered" /\ self_size_filter = 0) =>
    /\ ~reflooded
    /\ <<ws, max_id>> = ws_flooded

\* C8 as stated: calling DTWatershed or MutexWatershed on an input of the
\* declared dimensionality ends in a not-implemented error.
C8_StubsNotImplemented ==
  (cls \in {"DTWatershed", "MutexWatershed"} /\ ndim = DeclaredNdim(cls)
     /\ pc \in {"done", "raised"}) =>
    outcome = "NotImplementedError"

\* Some label survives the erasing of size_filter, so that the re-flood
\* grows the labels given to it.
SeedsSurvive == \E v \in Vox(shape) : Erased(ws_flooded[1], self_size_filter)[v] # 0

\* C9 as stated: in anisotropic mode with a positive size_filter every
\* nonzero label of the label volume, after the watershed and after the
\* size filter, is the label of a seed voxel of the same z-slice of the
\* merged seed map: no label enters a slice from a neighbouring slice.
\* (Read on the calls in which a label survives the erasing.)
C9_LabelsStayInSlice ==
  (IsLR /\ is_anisotropic /\ self_size_filter > 0
     /\ (pc = "flooded" \/ (pc = "filtered" /\ SeedsSurvive))) =>
    \A v \in Vox(shape) :
       ws[v] # 0 => \E u \in Slice(shape, ZOf(shape, v)) : seeds[u] = ws[v]

\* The re-flood of size_filter kept every seed label and brought no new one.
RefloodKeepsSeeds(e, r) ==
  /\ \A v \in DOMAIN e : e[v] # 0 => r[v] = e[v]
  /\ Labels(r) \subseteq Labels(e) \cup {0}

\* C10: if the re-flood keeps the seed labels and brings no new label, every
\* nonzero label of the result of size_filter is a label of its input that
\* had at least size_filter voxels, covers at least the voxels it had, and a
\* second size_filter with the same threshold changes nothing.
C10_NoCascade ==
  (IsLR /\ pc = "filtered"
     /\ RefloodKeepsSeeds(Erased(ws_flooded[1], self_size_filter), ws_filtered)) =>
    /\ \A l \in Labels(ws_filtered) \ {0} :
          /\ l \in Labels(ws_flooded[1])
          /\ Count(ws_flooded[1], l) >= self_size_filter
          /\ \A v \in Vox(shape) : ws_flooded[1][v] = l => ws_filtered[v] = l
    /\ LET again == size_filter(shape, nearest, ws_filtered, self_size_filter)
       IN RefloodKeepsSeeds(Erased(ws_filtered, self_size_filter), again[1])
            => again[1] = ws_filtered

\* size_filter erased two regions and the survivors took their voxels.
C10_Witness ==
  /\ IsLR /\ pc = "filtered" /\ self_size_filter > 0
  /\ RefloodKeepsSeeds(Erased(ws_flooded[1], self_size_filter), ws_filtered)
  /\ Cardinality(SmallIds(ws_flooded[1], self_size_filter)) >= 2
  /\ Labels(ws_filtered) # {0}
  /\ \A v \in Vox(shape) : ws_filtered[v] # 0

=============================================================================
